---- MODULE Spec2Model ----
(***************************************************************************)
(* Model of physics_simulator.py: class ParticleSystem.                    *)
(*                                                                         *)
(* Real numbers are carried in exact fixed point:                          *)
(*   - coordinates (pos, box_size) in hundredths of a length unit, so      *)
(*     box_size = 15 is 1500 and domainSize + 0.29 is 1529;                *)
(*   - velocity components in whole units, so that the increment           *)
(*     vel * 0.03 of update is exactly 3 * vel hundredths;                 *)
(*   - physical_param in tenths (the step of the sliders), scale and the   *)
(*     characteristic speeds in thousandths, speeds in tenths.             *)
(* np.sqrt and np.linalg.norm are the floor square root of the scaled      *)
(* argument.  The random draws (np.random.rand, maxwell.rvs) are           *)
(* nondeterministic choices from the finite sample sets below.             *)
(***************************************************************************)
EXTENDS Integers, Sequences, FiniteSets, TLC

\* ---------------------------------------------------------------- bounds
MaxN == 2
MaxSteps == 3

\* ------------------------------------------------------ program constants
\* self.box_size = 15, in hundredths
box_size_value == 1500
\* the time increment 0.03 of update: hundredths of length per unit velocity
dt == 3

\* ------------------------------------------------------------ input sets
\* n as passed by a caller: negative, zero and positive counts
Counts == (0 - 1)..MaxN
Modes == {"temperature", "mass"}
\* physical_param in tenths: -1.0, 0.0, 2.0
Params == {0 - 10, 0, 20}

\* np.random.rand(n, 2) * box_size: points of [0, box_size) (hundredths),
\* next to the upper wall in x and next to or on the lower wall in y
Points == {<<1499, 30>>, <<1470, 0>>}
\* speed * (cos(angle), sin(angle)) for a positive scale: the Maxwell law has
\* every speed >= 0 in its support, so a slow, a diagonal and a very fast
\* vector (|v| * dt > box_size) are all possible draws
Vels == {<<10, 0 - 10>>, <<0 - 3, 4>>, <<600, 0>>}

VARIABLES
    pc,               \* where the caller is: "start", "uninitialized" (inside
                      \* __init__, before line 22), "active", "failed"
    err,              \* exception raised by the constructor, "none" if none
    attrs,            \* names of the attributes the instance has
    n,                \* self.n
    simulation_mode,  \* self.simulation_mode
    physical_param,   \* self.physical_param
    box_size,         \* self.box_size
    pos,              \* self.pos
    vel,              \* self.vel
    vel0,             \* self.vel as written by _initialize_velocities
    prevPos,          \* self.pos before the last update
    prevVel,          \* self.vel before the last update
    steps,            \* number of update calls so far
    speedsLog,        \* the values returned by the last two reads of speeds
    flipped,          \* a component changed sign in an update since the last read
    flippedBetween,   \* ... in an update between the two reads of speedsLog
    charRead          \* <<>> or the value returned by the last
                      \* get_characteristic_speeds, with the number of update
                      \* calls that preceded the call

vars == <<pc, err, attrs, n, simulation_mode, physical_param, box_size, pos, vel,
          vel0, prevPos, prevVel, steps, speedsLog, flipped, flippedBetween,
          charRead>>

config == <<attrs, n, simulation_mode, physical_param, box_size>>

\* --------------------------------------------------------------- helpers
Axes == {1, 2}

RECURSIVE SqrtSearch(_, _, _)
SqrtSearch(x, lo, hi) ==
    IF lo >= hi THEN lo
    ELSE LET mid == (lo + hi + 1) \div 2
         IN  IF mid * mid <= x THEN SqrtSearch(x, mid, hi)
             ELSE SqrtSearch(x, lo, mid - 1)

\* np.sqrt / the root of np.linalg.norm on fixed-point values: floor square root
np_sqrt(x) == SqrtSearch(x, 0, 40000)

\* np.where(cond, a, b) on one element
np_where(cond, a, b) == IF cond THEN a ELSE b

\* the last two entries of a log of returned values
Last2(log) == IF Len(log) <= 2 THEN log ELSE SubSeq(log, Len(log) - 1, Len(log))

\* lines 26-29 / 58-61: scale in thousandths, for a param (tenths) the code can
\* turn into a number: any param in temperature mode, param > 0 in mass mode
scale_of(mode, param) ==
    IF mode = "temperature" THEN param * 100
    ELSE np_sqrt(10000000 \div param)

\* line 37: self.pos += self.vel * 0.03
translate(p, v) ==
    [i \in DOMAIN p |-> <<p[i][1] + v[i][1] * dt, p[i][2] + v[i][2] * dt>>]

\* variants of _handle_boundary with a slipped condition or value
\* non-strict comparisons: reflects on the wall itself
_handle_boundary_inclusive(p, v, box) ==
    [i \in DOMAIN v |->
        <<np_where(p[i][1] <= 0 \/ p[i][1] >= box, 0 - v[i][1], v[i][1]),
          np_where(p[i][2] <= 0 \/ p[i][2] >= box, 0 - v[i][2], v[i][2])>>]

\* inelastic wall: the reflected component loses half of its value
_handle_boundary_damped(p, v, box) ==
    [i \in DOMAIN v |->
        <<np_where(p[i][1] < 0 \/ p[i][1] > box, (0 - v[i][1]) \div 2, v[i][1]),
          np_where(p[i][2] < 0 \/ p[i][2] > box, (0 - v[i][2]) \div 2, v[i][2])>>]

\* no reflection at all
_handle_boundary_none(p, v, box) == v

\* the test against 0 is missing: only the upper walls reflect
_handle_boundary_upper_only(p, v, box) ==
    [i \in DOMAIN v |->
        <<np_where(p[i][1] > box, 0 - v[i][1], v[i][1]),
          np_where(p[i][2] > box, 0 - v[i][2], v[i][2])>>]

\* the mask is taken from the first row instead of from each row
_handle_boundary_shared(p, v, box) ==
    [i \in DOMAIN v |->
        <<np_where(p[1][1] < 0 \/ p[1][1] > box, 0 - v[i][1], v[i][1]),
          np_where(p[1][2] < 0 \/ p[1][2] > box, 0 - v[i][2], v[i][2])>>]

\* lines 42-49: the new self.vel, from the translated positions p
_handle_boundary(p, v, box) ==
    [i \in DOMAIN v |->
        <<np_where(p[i][1] < 0 \/ p[i][1] > box, 0 - v[i][1], v[i][1]),
          np_where(p[i][2] < 0 \/ p[i][2] > box, 0 - v[i][2], v[i][2])>>]

\* lines 37-38: the positions and velocities one update call leaves
advance(p, v, box) ==
    LET p2 == translate(p, v)
    IN  [pos |-> p2, vel |-> _handle_boundary(p2, v, box)]

\* line 54: np.linalg.norm(self.vel, axis=1), in tenths
norm(v) ==
    [i \in DOMAIN v |-> np_sqrt(100 * (v[i][1] * v[i][1] + v[i][2] * v[i][2]))]

\* lines 63-66: (v_p, v_mean, v_rms) in thousandths; sqrt(2) = 1.414,
\* 2 sqrt(2/pi) = 1.596, sqrt(3) = 1.732
characteristic(scale) ==
    <<(1414 * scale) \div 1000, (1596 * scale) \div 1000, (1732 * scale) \div 1000>>

\* ------------------------------------------------------------------ Init
\* Before ParticleSystem(...) is called: the instance has no attribute yet.
Init ==
    /\ pc = "start"
    /\ err = "none"
    /\ attrs = {}
    /\ n = 0
    /\ simulation_mode = "unset"
    /\ physical_param = 0
    /\ box_size = 0
    /\ pos = <<>>
    /\ vel = <<>>
    /\ vel0 = <<>>
    /\ prevPos = <<>>
    /\ prevVel = <<>>
    /\ steps = 0
    /\ speedsLog = <<>>
    /\ flipped = FALSE
    /\ flippedBetween = FALSE
    /\ charRead = <<>>

\* ParticleSystem.__init__, lines 17-21: the fields and the positions.
\* np.random.rand(n, 2) raises ValueError on a negative dimension and
\* returns an empty (0, 2) array for n = 0.  The call of line 22 is the
\* next action.
__init__ ==
    /\ pc = "start"
    /\ \E cnt \in Counts, mode \in Modes, param \in Params :
        /\ n' = cnt
        /\ simulation_mode' = mode
        /\ physical_param' = param
        /\ box_size' = box_size_value
        /\ IF cnt < 0
           THEN /\ pc' = "failed"
                /\ err' = "ValueError"
                /\ attrs' = {"n", "simulation_mode", "physical_param", "box_size"}
                /\ pos' = pos
           ELSE /\ pc' = "uninitialized"
                /\ err' = err
                /\ attrs' = {"n", "simulation_mode", "physical_param", "box_size", "pos"}
                /\ pos' \in [1..cnt -> Points]
    /\ UNCHANGED <<vel, vel0, prevPos, prevVel, steps, speedsLog, flipped,
                   flippedBetween, charRead>>

\* variant of _initialize_velocities that returns without writing self.vel
_initialize_velocities_unsampled ==
    /\ pc = "uninitialized"
    /\ pc' = "active"
    /\ UNCHANGED <<err, attrs, n, simulation_mode, physical_param, box_size, pos,
                   vel, vel0, prevPos, prevVel, steps, speedsLog, flipped,
                   flippedBetween, charRead>>

\* variant of _initialize_velocities that samples size = n - 1 velocities
_initialize_velocities_short ==
    /\ pc = "uninitialized"
    /\ physical_param > 0
    /\ pc' = "active"
    /\ attrs' = attrs \cup {"vel"}
    /\ vel' \in [1..(n - 1) -> Vels]
    /\ vel0' = vel'
    /\ UNCHANGED <<err, n, simulation_mode, physical_param, box_size, pos, prevPos,
                   prevVel, steps, speedsLog, flipped, flippedBetween, charRead>>

\* ParticleSystem._initialize_velocities, lines 24-33, called from line 22.
\*   mass mode, param = 0: 1 / 0 raises ZeroDivisionError (line 29);
\*   mass mode, param < 0: np.sqrt gives nan and maxwell.rvs raises ValueError;
\*   temperature mode, param < 0: maxwell.rvs raises ValueError (scale < 0);
\*   scale = 0: maxwell.rvs accepts it and returns speeds that are all 0;
\*   scale > 0: any speeds and angles.
_initialize_velocities ==
    /\ pc = "uninitialized"
    /\ IF simulation_mode = "mass" /\ physical_param = 0
       THEN /\ pc' = "failed"
            /\ err' = "ZeroDivisionError"
            /\ UNCHANGED <<attrs, vel, vel0>>
       ELSE IF physical_param < 0
       THEN /\ pc' = "failed"
            /\ err' = "ValueError"
            /\ UNCHANGED <<attrs, vel, vel0>>
       ELSE /\ pc' = "active"
            /\ err' = err
            /\ attrs' = attrs \cup {"vel"}
            /\ IF scale_of(simulation_mode, physical_param) = 0
               THEN vel' = [i \in 1..n |-> <<0, 0>>]
               ELSE vel' \in [1..n -> Vels]
            /\ vel0' = vel'
    /\ UNCHANGED <<n, simulation_mode, physical_param, box_size, pos, prevPos,
                   prevVel, steps, speedsLog, flipped, flippedBetween, charRead>>

\* variant of update that draws the velocities again on every call
update_resample ==
    /\ pc = "active"
    /\ steps < MaxSteps
    /\ pos' = translate(pos, vel)
    /\ vel' \in [1..n -> Vels]
    /\ flipped' = flipped
    /\ prevPos' = pos
    /\ prevVel' = vel
    /\ steps' = steps + 1
    /\ UNCHANGED <<pc, err, attrs, n, simulation_mode, physical_param, box_size,
                   vel0, speedsLog, flippedBetween, charRead>>

\* ParticleSystem.update, lines 35-38 with _handle_boundary, lines 40-49.
\* The instance is reachable by a caller only once __init__ has returned.
update ==
    /\ pc = "active"
    /\ steps < MaxSteps
    /\ LET r == advance(pos, vel, box_size)
       IN  /\ pos' = r.pos
           /\ vel' = r.vel
           /\ flipped' = (flipped \/ \E i \in DOMAIN vel : \E a \in Axes :
                                        r.vel[i][a] * vel[i][a] < 0)
    /\ prevPos' = pos
    /\ prevVel' = vel
    /\ steps' = steps + 1
    /\ UNCHANGED <<pc, err, attrs, n, simulation_mode, physical_param, box_size,
                   vel0, speedsLog, flippedBetween, charRead>>

\* ParticleSystem.speeds, lines 51-54: a read of the property.
speeds ==
    /\ pc = "active"
    /\ speedsLog' = Last2(Append(speedsLog, norm(vel)))
    /\ flippedBetween' = flipped
    /\ flipped' = FALSE
    /\ UNCHANGED <<pc, err, attrs, n, simulation_mode, physical_param, box_size,
                   pos, vel, vel0, prevPos, prevVel, steps, charRead>>

\* variant of get_characteristic_speeds that keeps scale in self.physical_param
get_characteristic_speeds_stateful ==
    /\ pc = "active"
    /\ physical_param' = scale_of(simulation_mode, physical_param)
    /\ charRead' = <<[at |-> steps,
                       val |-> characteristic(scale_of(simulation_mode, physical_param))]>>
    /\ UNCHANGED <<pc, err, attrs, n, simulation_mode, box_size,
                   pos, vel, vel0, prevPos, prevVel, steps, speedsLog, flipped,
                   flippedBetween>>

\* ParticleSystem.get_characteristic_speeds, lines 56-66.
get_characteristic_speeds ==
    /\ pc = "active"
    /\ charRead' = <<[at |-> steps,
                       val |-> characteristic(scale_of(simulation_mode, physical_param))]>>
    /\ UNCHANGED <<pc, err, attrs, n, simulation_mode, physical_param, box_size,
                   pos, vel, vel0, prevPos, prevVel, steps, speedsLog, flipped,
                   flippedBetween>>

Next ==
    \/ __init__
    \/ _initialize_velocities
    \/ update
    \/ speeds
    \/ get_characteristic_speeds

Spec == Init /\ [][Next]_vars

\* ------------------------------------------------------------ properties
Particles == 1..n

Outside(x) == x < 0 \/ x > box_size

Abs(x) == IF x < 0 THEN 0 - x ELSE x

\* C1: one update adds vel * dt to both coordinates of every particle and
\* then negates a velocity component exactly when the translated coordinate
\* of that axis is < 0 or > box_size; the other component and the translated
\* position are left alone (x = box_size - 0.01, vx = 10 gives
\* x' = box_size + 0.29 and vx' = -10).
C1_UpdateTranslatesThenReflects ==
    steps > 0 =>
        \A i \in Particles : \A a \in Axes :
            /\ pos[i][a] = prevPos[i][a] + prevVel[i][a] * dt
            /\ vel[i][a] = IF Outside(pos[i][a]) THEN 0 - prevVel[i][a]
                           ELSE prevVel[i][a]
            /\ (prevPos[i][a] = box_size - 1 /\ prevVel[i][a] = 10)
                 => (pos[i][a] = box_size + 29 /\ vel[i][a] = 0 - 10)

C1_Witness ==
    /\ steps > 0
    /\ \E i \in Particles :
        /\ prevPos[i] = <<1499, 30>> /\ prevVel[i] = <<10, 0 - 10>>
        /\ pos[i] = <<1529, 0>> /\ vel[i] = <<0 - 10, 0 - 10>>

\* C2: construction fails whenever count <= 0 or physicalParam <= 0; no
\* ensemble becomes usable (active) with a non-positive count or parameter.
C2_ConstructionRejectsNonPositive ==
    pc = "active" => (n > 0 /\ physical_param > 0)

\* C3: update never resamples: every velocity component is the value
\* sampled at construction or its negation.
C3_VelocityIsSampledValueUpToSign ==
    pc = "active" =>
        \A i \in Particles : \A a \in Axes :
            vel[i][a] = vel0[i][a] \/ vel[i][a] = 0 - vel0[i][a]

C3_Witness ==
    /\ steps > 1
    /\ \E i \in Particles : \E a \in Axes :
        vel0[i][a] # 0 /\ vel[i][a] = 0 - vel0[i][a]

\* C4 as stated: two reads of speeds between which an update changed the
\* sign of a velocity component return different sequences.
C4_SpeedsDifferAfterSignChange ==
    (Len(speedsLog) = 2 /\ flippedBetween) => speedsLog[1] # speedsLog[2]

\* C4 as amended: two reads of speeds between which an update changed the
\* sign of a velocity component return equal sequences (a reflection keeps
\* every particle's speed).
C4_SpeedsEqualAfterSignChange ==
    (Len(speedsLog) = 2 /\ flippedBetween) => speedsLog[1] = speedsLog[2]

C4_Witness ==
    /\ Len(speedsLog) = 2
    /\ flippedBetween
    /\ n > 0

\* C5: every coordinate is outside [0, box_size] by at most |velocity| * dt,
\* |velocity| the particle's speed (compared through the squares).
C5_OvershootBounded ==
    pc = "active" =>
        \A i \in Particles : \A a \in Axes :
            LET sq == vel[i][1] * vel[i][1] + vel[i][2] * vel[i][2]
                over == IF pos[i][a] < 0 THEN 0 - pos[i][a]
                        ELSE IF pos[i][a] > box_size THEN pos[i][a] - box_size
                        ELSE 0
            IN  over * over <= dt * dt * sq

C5_Witness ==
    /\ steps > 0
    /\ \E i \in Particles : \E a \in Axes : Outside(pos[i][a])

C7_LengthsEqualCount ==
    /\ [](pc = "active" => (Len(pos) = n /\ Len(vel) = n))
    /\ [][pc # "start" => n' = n]_vars

C7_Witness ==
    /\ pc = "active"
    /\ n >= 2
    /\ steps > 0
    /\ Len(pos) = n
    /\ Len(vel) = n

\* C8: a read of speeds or a call of get_characteristic_speeds changes no
\* field of the ensemble, and get_characteristic_speeds returns the same
\* three values for the same mode and parameter whatever the count and the
\* number of updates before the call (2.828, 3.192, 3.464 for temperature 2.0,
\* 0.999, 1.128, 1.224 for mass 2.0).
C8_StatisticsArePure ==
    /\ [][(speeds \/ get_characteristic_speeds) => UNCHANGED <<config, pos, vel>>]_vars
    /\ [](\A k \in DOMAIN charRead :
            /\ (simulation_mode = "temperature" /\ physical_param = 20)
                   => charRead[k].val = <<2828, 3192, 3464>>
            /\ (simulation_mode = "mass" /\ physical_param = 20)
                   => charRead[k].val = <<999, 1128, 1224>>)

C8_Witness ==
    /\ Len(charRead) = 1
    /\ charRead[1].at > 1
    /\ Len(speedsLog) > 0
    /\ simulation_mode = "temperature"
    /\ physical_param = 20
    /\ n >= 1

\* states of one other particle used to vary the rest of the ensemble
OtherStates ==
    { <<<<750, 750>>, <<0 - 3, 4>>>>,
      <<<<1499, 0>>, <<10, 0 - 10>>>>,
      <<<<0 - 30, 1530>>, <<600, 600>>>> }

\* the ensembles that agree with (p, v) on particle i
Variants(p, v, i) ==
    { [pos |-> [j \in DOMAIN p |-> IF j = i THEN p[i] ELSE f[j][1]],
       vel |-> [j \in DOMAIN v |-> IF j = i THEN v[i] ELSE f[j][2]]] :
      f \in [DOMAIN p -> OtherStates] }

\* C9: one update gives particle i the same position and velocity in every
\* ensemble that agrees on particle i and on box_size, whatever the other
\* particles' positions and velocities.
C9_PerParticleIndependence ==
    steps > 0 =>
        \A i \in Particles : \A e \in Variants(prevPos, prevVel, i) :
            LET r == advance(e.pos, e.vel, box_size)
            IN  r.pos[i] = pos[i] /\ r.vel[i] = vel[i]

C9_Witness ==
    /\ steps > 0
    /\ n >= 2
    /\ \E i, j \in Particles :
        /\ vel[i] # prevVel[i]
        /\ vel[j] = prevVel[j]
        /\ prevVel[j] # <<0, 0>>

\* C10: with |velocity component| * dt <= box_size, a coordinate that is
\* outside [0, box_size] after one update is inside after the next one.
C10_OutsideAtMostOneFrame ==
    steps > 0 =>
        \A i \in Particles : \A a \in Axes :
            (Abs(prevVel[i][a]) * dt <= box_size /\ Outside(prevPos[i][a]))
                => ~Outside(pos[i][a])

C10_Witness ==
    /\ steps > 1
    /\ \E i \in Particles : \E a \in Axes :
        /\ Abs(prevVel[i][a]) * dt <= box_size
        /\ Outside(prevPos[i][a])
        /\ ~Outside(pos[i][a])
====
